---- MODULE Spec2Model ----
(***************************************************************************)
(* Playback engine of the Universal Haptic Waveform Designer:              *)
(* WaveformPlaybackThread (main.py lines 39-128).  One playback job is     *)
(* modelled from the moment QThread.start() has been called until run()    *)
(* returns.  Every send_command call, every signal emission and the pacing *)
(* sleep is one step, so stop() (called from the UI thread) can interleave *)
(* anywhere.                                                               *)
(*                                                                         *)
(* Numbers.  An amplitude is an integer that counts units of 1e-13, so the *)
(* tolerance 1e-12 of line 93 is SpreadTol = 10 units; NaN, +inf and -inf  *)
(* are three values outside the finite range.  A unit-range value is an    *)
(* exact fraction <<num, den>>, and "v > 1e-6" (line 109) is               *)
(* num * UnitTolDen > den.  The arithmetic is exact: the rounding of the   *)
(* floating-point operations themselves is not modelled.                   *)
(*                                                                         *)
(* Exceptions.  send_command may raise at every call.  The other calls of  *)
(* run() into collaborators - the event's accessors, log.emit,             *)
(* finished.emit inside the try body, msleep - may raise too; numpy        *)
(* arithmetic on a finite float array does not.  The handler's own         *)
(* finished.emit (line 128) is outside every try and is taken to return.   *)
(*                                                                         *)
(* Specifications.  Spec is one job with every exception path.  QSpec is   *)
(* the quantisation of lines 104-110 step by step on bare arrays.  AppSpec *)
(* is the window (UniversalEventDesigner): the UI thread with its menu     *)
(* handlers, the test pulse and play_waveform_on_device (lines 286-343),   *)
(* and the jobs it creates, each running run() concurrently.  In AppSpec   *)
(* every call returns, except that send_command may raise where the raise  *)
(* is caught on the spot and that _extract_y raises on a sample rate that  *)
(* is no number; a job is numbered by its order of creation and            *)
(* the commands on the channel are read off the step a thread takes next.  *)
(* PlaybackSpec is AppSpec without the two settings of the Device menu,    *)
(* FairPlaybackSpec adds that every thread that can step does step,        *)
(* EditSpec adds the editor replacing the waveform of a played event and   *)
(* CloseSpec the closing of the window.  XSpec is _extract_y (lines 54-85) *)
(* strategy by strategy.                                                   *)
(***************************************************************************)
EXTENDS Integers, Sequences, FiniteSets, TLC

\* ------------------------------------------------------------------ bounds
MaxLen == 3
\* playback jobs created in one run of the application
MaxJobs == 2

\* ------------------------------------------------------- program constants
DefaultTickMs == 50
MinTickMs == 5
DefaultSampleRate == 1000
DutyMax == 15
SpreadTol == 10
UnitTolDen == 1000000

\* ------------------------------------------------------------ float values
\* An amplitude is an integer that counts units of 10^-13, so that the 1e-12
\* of line 93 is SpreadTol.  The float values that are no finite number are
\* the integers of NonFinite, and the largest finite float is NonFinite.max:
\* a sum or difference beyond it is +inf.
NonFinite == [nan |-> 1000000003, posinf |-> 1000000001, neginf |-> -1000000001,
              max |-> 100000000]
IsFinite(a) == a \notin {NonFinite.nan, NonFinite.posinf, NonFinite.neginf}

\* --------------------------------------------------------- input universes
Amps == {-1, 0, 40, NonFinite.nan}

RECURSIVE SeqsUpTo(_, _)
SeqsUpTo(S, n) ==
    IF n = 0 THEN {<< >>}
    ELSE LET shorter == SeqsUpTo(S, n - 1)
         IN  shorter \cup {Append(s, x) : s \in {t \in shorter : Len(t) = n - 1}, x \in S}

Arrays == SeqsUpTo(Amps, MaxLen)

SampleRates == {0, 40}

\* one second of a two-level wave sampled at 1000 Hz
LongWave == [k \in 1..1000 |-> IF ((k - 1) \div 250) % 2 = 0 THEN 40 ELSE -1]
TargetLists == {<< >>, <<2, 1>>}
FreqCodes == {4, 7}

\* ---------------------------------------------------------------- helpers
Max(a, b) == IF a >= b THEN a ELSE b

SeqMin(y) == CHOOSE m \in {y[k] : k \in DOMAIN y} : \A k \in DOMAIN y : m <= y[k]
SeqMax(y) == CHOOSE m \in {y[k] : k \in DOMAIN y} : \A k \in DOMAIN y : m >= y[k]

\* Python round() and numpy rint: nearest integer, ties to the even one.
\* p >= 0, q > 0.
RoundHalfEven(p, q) ==
    LET f == p \div q
        r == p % q
    IN  IF 2 * r < q THEN f
        ELSE IF 2 * r > q THEN f + 1
        ELSE IF f % 2 = 0 THEN f ELSE f + 1

\* ------------------------------------------------------ the waveform source
\* An event as _extract_y sees it:
\*   waveform_data : is event.waveform_data present
\*   gm            : event.get_modified_waveform  ("absent" | "raises" | "ok", y)
\*   arr           : wd.get_amplitude_array       ("raises" | "ok", y)
\*   amplitude     : wd.amplitude, the points list, as its amplitudes
\*   times         : the times of these points, in ms
\*   points        : "ok", or "malformed" when a point lacks a key (lines 76-77)
\*   duration      : wd.duration in ms ("missing" | "bad" | "ok", v)
\*   sample_rate   : wd.sample_rate ("missing" | "bad" | "ok", v)
Accessor(kind, y) == [kind |-> kind, y |-> y]
Rate(kind, v) == [kind |-> kind, v |-> v]

\* an event whose points, if any, lie on the uniform grid 0, 1, 2, .. ms
MkEvent(wd, gm, arr, pts, sr) ==
    [waveform_data |-> wd, gm |-> gm, arr |-> arr, amplitude |-> pts,
     times |-> [k \in DOMAIN pts |-> k - 1], points |-> "ok",
     duration |-> Rate("missing", 0), sample_rate |-> sr]

\* float(getattr(wd, "sample_rate", 1000.0)): raises on a value that is no number
SampleRateRaises(ev) == ev.sample_rate.kind = "bad"
SampleRateOf(ev) ==
    IF ev.sample_rate.kind = "missing" THEN DefaultSampleRate ELSE ev.sample_rate.v

\* line 78: t.size > 1 and not np.allclose(np.diff(t), np.diff(t)[0])
NonUniform(t) ==
    /\ Len(t) > 1
    /\ \E k \in 1..(Len(t) - 1) : t[k + 1] - t[k] # t[2] - t[1]

\* float(getattr(wd, "duration", t[-1] if t.size else 0.0)), in ms
DurationRaises(ev) == ev.duration.kind = "bad"
DurationOf(ev) ==
    IF ev.duration.kind = "missing"
    THEN (IF Len(ev.times) > 0 THEN ev.times[Len(ev.times)] ELSE 0)
    ELSE ev.duration.v

\* line 79: n = max(2, int(round(duration * sr))), duration in ms and sr in Hz
NumResampled(dur, sr) == Max(2, RoundHalfEven(dur * sr, 1000))

\* np.interp at x = xn / xd over the points (t, y), t increasing: the end
\* values outside [t[1], t[Len(t)]], the chord between two points inside,
\* rounded down to the amplitude unit
Interp(xn, xd, t, y) ==
    IF xn <= t[1] * xd THEN y[1]
    ELSE IF xn >= t[Len(t)] * xd THEN y[Len(t)]
    ELSE LET s == CHOOSE k \in 1..(Len(t) - 1) : t[k] * xd <= xn /\ xn < t[k + 1] * xd
         IN  y[s] + ((y[s + 1] - y[s]) * (xn - t[s] * xd)) \div ((t[s + 1] - t[s]) * xd)

\* lines 79-81: np.interp(np.linspace(0.0, duration, n), t, y)
Resample(t, y, dur, sr) ==
    LET n == NumResampled(dur, sr)
    IN  [k \in 1..n |-> Interp(dur * (k - 1), n - 1, t, y)]

\* lines 75-82: the amplitudes of the points, resampled when the grid is not uniform
PointsSignal(ev) ==
    IF NonUniform(ev.times)
    THEN Resample(ev.times, ev.amplitude, DurationOf(ev), SampleRateOf(ev))
    ELSE ev.amplitude

\* lines 73-84 raise, and the except of line 84 swallows it
PointsRaise(ev) ==
    \/ ev.points = "malformed"
    \/ SampleRateRaises(ev)
    \/ NonUniform(ev.times) /\ DurationRaises(ev)

Extracted(kind, y, sr) == [kind |-> kind, y |-> y, sr |-> sr]

\* _extract_y: the result is ("ok", y, sr) or ("raise", ..) when line 85 raises.
ExtractY_tryPoints(ev) ==
    IF Len(ev.amplitude) > 0 /\ ~PointsRaise(ev)
    THEN Extracted("ok", PointsSignal(ev), SampleRateOf(ev))
    ELSE IF SampleRateRaises(ev) THEN Extracted("raise", << >>, 0)
    ELSE Extracted("ok", << >>, SampleRateOf(ev))

ExtractY_tryArray(ev) ==
    IF ev.arr.kind = "ok" /\ ~SampleRateRaises(ev) /\ Len(ev.arr.y) > 0
    THEN Extracted("ok", ev.arr.y, SampleRateOf(ev))
    ELSE ExtractY_tryPoints(ev)

\* ExtractY that asks for the amplitude array before the modified waveform
ExtractY_arrayFirst(ev) ==
    IF ~ev.waveform_data THEN Extracted("ok", << >>, 0)
    ELSE IF ev.arr.kind = "ok" /\ ~SampleRateRaises(ev) /\ Len(ev.arr.y) > 0
    THEN Extracted("ok", ev.arr.y, SampleRateOf(ev))
    ELSE IF ev.gm.kind = "ok" /\ ~SampleRateRaises(ev) /\ Len(ev.gm.y) > 0
    THEN Extracted("ok", ev.gm.y, SampleRateOf(ev))
    ELSE ExtractY_tryPoints(ev)

ExtractY(ev) ==
    IF ~ev.waveform_data THEN Extracted("ok", << >>, 0)
    ELSE IF ev.gm.kind = "ok" /\ ~SampleRateRaises(ev) /\ Len(ev.gm.y) > 0
    THEN Extracted("ok", ev.gm.y, SampleRateOf(ev))
    ELSE ExtractY_tryArray(ev)

\* --------------------------------------------------- normalise and quantise
\* line 90: np.nan_to_num(y, nan=0.0, posinf=0.0, neginf=0.0)
NanToNum(y) == [k \in DOMAIN y |-> IF IsFinite(y[k]) THEN y[k] ELSE 0]

\* line 93: abs(y_max - y_min) < 1e-12
Degenerate(lo, hi) == hi - lo < SpreadTol

\* a - b as line 95 computes it for finite a >= b: +inf beyond the largest float
FSub(a, b) == IF a - b > NonFinite.max THEN NonFinite.posinf ELSE a - b

\* the unit-range value that is NaN
NaNUnit == <<0, 0>>
IsNaNUnit(v) == v[2] = 0

\* n / d as line 95 computes it, a fraction <<num, den>>: inf / inf is NaN and
\* a finite number over inf is 0
FDiv(n, d) ==
    IF d = NonFinite.posinf
    THEN IF n = NonFinite.posinf THEN NaNUnit ELSE <<0, 1>>
    ELSE <<n, d>>

\* line 96: np.clip(v, 0.0, 1.0) of the fraction v; NaN stays NaN
ClipUnit(v) ==
    IF v[1] < 0 THEN <<0, 1>> ELSE IF v[1] > v[2] THEN <<1, 1>> ELSE v

\* FlatValue with "<" for "<=": a flat zero signal becomes all ones
FlatValue_strict(hi) == IF hi < 0 THEN <<0, 1>> ELSE <<1, 1>>

\* line 94: np.zeros_like(y) if y_max <= 0.0 else np.ones_like(y)
FlatValue(hi) == IF hi <= 0 THEN <<0, 1>> ELSE <<1, 1>>

\* _to_unit_nonneg: every sample becomes a fraction <<num, den>> in [0, 1].
ToUnitNonneg(y) ==
    IF Len(y) = 0 THEN << >>
    ELSE LET z  == NanToNum(y)
             lo == SeqMin(z)
             hi == SeqMax(z)
         IN  IF Degenerate(lo, hi)
             THEN [k \in DOMAIN z |-> FlatValue(hi)]
             ELSE [k \in DOMAIN z |-> ClipUnit(FDiv(FSub(z[k], lo), FSub(hi, lo)))]

\* StepOf with int() for round(): the product is truncated
StepOf_truncated(sr, tick) == Max(1, (sr * tick) \div 1000)

\* step = max(1, int(round(float(sr) * (tick_ms / 1000.0))))
StepOf(sr, tick) == Max(1, RoundHalfEven(sr * tick, 1000))

\* number of elements of y[::step] for len(y) = n
NumTicks(n, step) == (n + step - 1) \div step

\* y[::step]
Decimate(y, step) == [k \in 1..NumTicks(Len(y), step) |-> y[(k - 1) * step + 1]]

\* what astype(int) makes of NaN is not defined: 0 on some builds, the most
\* negative integer on others
NanCasts == {0, -2000000000}

\* line 108: np.rint(v * 15.0).astype(int), where NaN is cast to c
Rint15(v, c) == IF IsNaNUnit(v) THEN c ELSE RoundHalfEven(v[1] * DutyMax, v[2])

\* line 109: np.where((v > 1e-6) & (d == 0), 1, d)
\* v > 1e-6 is num * UnitTolDen > den, that is den \div UnitTolDen < num
AboveUnitTol(v) == v[2] \div UnitTolDen < v[1]

\* FloorFix with line 109 left out
FloorFix_none(v, d) == d

FloorFix(v, d) == IF AboveUnitTol(v) /\ d = 0 THEN 1 ELSE d

\* line 110: np.clip(d, 0, 15)
ClipDuty(d) == IF d < 0 THEN 0 ELSE IF d > DutyMax THEN DutyMax ELSE d

\* DutyOf on a scale of 16, with lines 109-110 left out
DutyOf_sixteen(v, c) ==
    IF IsNaNUnit(v) THEN c ELSE RoundHalfEven(v[1] * (DutyMax + 1), v[2])

\* lines 108-110 for one unit-range value v, where NaN is cast to c
DutyOf(v, c) == ClipDuty(FloorFix(v, Rint15(v, c)))

\* lines 104-110, where NaN is cast to c
DutySeq(y, sr, tick, c) ==
    LET u == Decimate(ToUnitNonneg(y), StepOf(sr, tick))
    IN  [k \in DOMAIN u |-> DutyOf(u[k], c)]

\* ------------------------------------------------------------------ state
VARIABLES
    event,       \* self.event, the waveform source handed to __init__
    actuators,   \* self.actuators
    freq_code,   \* self.freq_code
    tick_ms,     \* self.tick_ms
    stopFlag,    \* self._stop
    pc,          \* position of the worker thread inside run()
    duty_seq,    \* duty_seq of run()
    i,           \* index of the tick of the for loop of line 112 (1-based)
    j,           \* index into self.actuators of the inner loops (1-based)
    exc,         \* str(e) of the exception the outer handler caught, "" when none
    sent,        \* the send_command calls made on the device channel, in order
    info_log,    \* lines written by the slots connected to log and finished
    finished,    \* emissions of the finished signal, in order
    obs,         \* history of the run: what the properties below speak about
    quant,       \* lines 104-110 applied to a bare array, one line per step
    ext          \* _extract_y applied to an event, one strategy per step

\* the state of one job
jobvars == <<event, actuators, freq_code, tick_ms, stopFlag, pc, duty_seq, i, j,
             exc, sent, info_log, finished, obs>>

\* the application: UniversalEventDesigner on the UI thread and the jobs it
\* created.  The command a thread hands to serial_api.send_command in a step
\* is a function of the state before the step (JobCmd, TestCmd).
VARIABLES
    ui,          \* the window's fields and the position of the UI thread
    jobs         \* the WaveformPlaybackThread instances, by order of creation

appvars == <<ui, jobs>>

vars == <<jobvars, quant, ext, appvars>>

\* what no step of run() changes
job == <<event, actuators, freq_code, tick_ms, quant, ext, appvars>>

\* ----------------------------------------------------------------- inputs
NoAccessor == Accessor("raises", << >>)
OkRates == {Rate("ok", v) : v \in SampleRates}

Events ==
    \* no waveform data at all
    {MkEvent(FALSE, Accessor("absent", << >>), NoAccessor, << >>, Rate("missing", 0))}
    \* the modified waveform carries the samples
    \cup {MkEvent(TRUE, Accessor("ok", y), NoAccessor, << >>, sr) : y \in Arrays, sr \in OkRates}
    \* the amplitude array carries them, the modified waveform is absent, fails or is empty
    \cup {MkEvent(TRUE, Accessor(k, << >>), Accessor("ok", y), << >>, sr) :
            k \in {"absent", "raises", "ok"}, y \in {a \in Arrays : Len(a) <= 1}, sr \in OkRates}
    \* only the points list carries them
    \cup {MkEvent(TRUE, Accessor("absent", << >>), NoAccessor, y, sr) :
            y \in {a \in Arrays : Len(a) <= 2}, sr \in OkRates \cup {Rate("missing", 0)}}
    \* the one-second wave
    \cup {MkEvent(TRUE, Accessor("ok", LongWave), NoAccessor, << >>, Rate("ok", 1000))}
    \* a sample rate that float() rejects
    \cup {MkEvent(TRUE, Accessor("ok", y), NoAccessor, << >>, Rate("bad", 0)) :
            y \in {a \in Arrays : Len(a) <= 1}}

\* int(str(a).lstrip("A").lstrip("a")) of an actuator id that is already an int
ParseActuator(a) == a

\* __init__, lines 43-50
InitActuators(acts) ==
    LET given == IF Len(acts) = 0 THEN <<0>> ELSE acts
    IN  [k \in DOMAIN given |-> ParseActuator(given[k])]

InitTickMs(tick) == Max(MinTickMs, tick)

NoObs ==
    [running     |-> FALSE,  \* the job got past the empty check of line 101
     shutdowns   |-> 0,      \* shutdown loops begun (lines 119 and 126)
     ticksBegun  |-> 0,      \* ticks that passed the check of line 113
     ticksDone   |-> 0,      \* ticks whose commands were all issued
     stopBegun   |-> -1,     \* ticksBegun when stop() was first called
     stopDone    |-> -1,     \* ticksDone when stop() was first called
     stopRunning |-> FALSE,  \* stop() was first called while the job was Running
     exit        |-> "",     \* how the loop of line 112 ended: "end" | "stop"
     sentAtExc   |-> -1,     \* Len(sent) when the outer handler was entered
     logFailed   |-> 0,      \* enabled commands that raised
     offFailed   |-> 0,      \* off commands that raised
     unit        |-> << >>]  \* y after line 106: the unit-range value of each tick

\* _extract_y has not been called
ExtIdle ==
    [pc |-> "idle",
     event |-> MkEvent(FALSE, Accessor("absent", << >>), Accessor("raises", << >>),
                       << >>, Rate("missing", 0)),
     y |-> << >>, sr |-> 0]

\* lines 104-110 have nothing to work on
QuantIdle ==
    [pc |-> "idle", y |-> << >>, sr |-> 0, tick |-> 0, u |-> << >>, step |-> 0,
     dec |-> << >>, r |-> << >>, f |-> << >>, d |-> << >>]

\* a job that is not created yet
NoJob ==
    [pc          |-> "none",
     event       |-> MkEvent(FALSE, Accessor("absent", << >>), Accessor("raises", << >>),
                             << >>, Rate("missing", 0)),
     requested   |-> MkEvent(FALSE, Accessor("absent", << >>), Accessor("raises", << >>),
                             << >>, Rate("missing", 0)),  \* the event as line 337 saw it
     actuators   |-> << >>,
     freq_code   |-> 0,
     stop        |-> FALSE,    \* self._stop
     duty_seq    |-> << >>,
     i           |-> 0,
     j           |-> 0,
     running     |-> FALSE,    \* got past the empty check of line 101
     shutdowns   |-> 0,        \* shutdown loops begun (lines 119 and 126)
     notes       |-> 0]        \* completion notifications delivered

\* lines 515-517 and 525-527, and the UI thread in the event loop
UiIdle ==
    [pc                |-> "idle",
     device_targets    |-> <<0>>,
     device_freq_code  |-> 4,
     connected         |-> FALSE,
     play_thread       |-> 0,        \* self._play_thread, 0 for None
     req               |-> NoJob.event,  \* the event of the request in progress
     req_mapping       |-> << >>,
     req_targets       |-> << >>,
     acts              |-> << >>,    \* the local acts of play_waveform_on_device
     prevRunning       |-> FALSE,    \* what isRunning() of line 321 returned
     timedOut          |-> FALSE]

AppIdle ==
    /\ ui = UiIdle
    /\ jobs = [n \in 1..MaxJobs |-> NoJob]

Init ==
    /\ quant = QuantIdle
    /\ ext = ExtIdle
    /\ AppIdle
    /\ event \in Events
    /\ \E acts \in TargetLists : actuators = InitActuators(acts)
    /\ freq_code \in FreqCodes
    /\ tick_ms = InitTickMs(DefaultTickMs)
    /\ stopFlag = FALSE
    /\ pc = "start"
    /\ duty_seq = << >>
    /\ i = 0
    /\ j = 0
    /\ exc = ""
    /\ sent = << >>
    /\ info_log = << >>
    /\ finished = << >>
    /\ obs = NoObs

\* ------------------------------------------------------ signals and channel
Cmd(addr, duty, freq, en) == [addr |-> addr, duty |-> duty, freq |-> freq, en |-> en]

\* line 115
OnCmd(addr, duty) == Cmd(addr, duty, freq_code, 1)
\* OffCmd that leaves the last actuator of the list enabled
OffCmd_lastEnabled(addr) ==
    IF j = Len(actuators) THEN Cmd(addr, DutyMax, freq_code, 1) ELSE Cmd(addr, 0, 0, 0)

\* lines 120 and 126
OffCmd(addr) == Cmd(addr, 0, 0, 0)

\* the slot of line 341: log_info_message(f"Playback: {msg}")
PlaybackLine(msg) == <<"Playback", msg>>
\* the slot of line 340 on the text of line 116
ErrorLine == <<"send_command error">>

\* finished.emit(ok, msg) with the connection of line 341
Emit(note) ==
    /\ finished' = Append(finished, note)
    /\ info_log' = Append(info_log, PlaybackLine(note[2]))

\* Catch with a handler that reports without switching the actuators off
Catch_noShutdown(text, o, n) ==
    /\ exc' = text
    /\ pc' = "h_emit"
    /\ j' = 1
    /\ obs' = [o EXCEPT !.sentAtExc = n]

\* entering "except Exception as e" of line 124 with str(e) = text, after n
\* commands; o is the history up to the raise
Catch(text, o, n) ==
    /\ exc' = text
    /\ pc' = "h_off"
    /\ j' = 1
    /\ obs' = [o EXCEPT !.sentAtExc = n]

\* ----------------------------------------------------------------- run()
\* IsEmpty with the check of line 101 left out
IsEmpty_never(y) == FALSE

\* line 101: if y.size == 0
IsEmpty(y) == Len(y) = 0

\* line 100: y, sr = self._extract_y(), and lines 101-110 on its result
Extract ==
    /\ pc = "start"
    /\ LET r == ExtractY(event) IN
         IF r.kind = "raise"
         THEN /\ Catch("sample_rate", obs, Len(sent))
              /\ UNCHANGED <<duty_seq, i>>
         ELSE IF IsEmpty(r.y)
         THEN /\ pc' = "emit_empty"
              /\ UNCHANGED <<duty_seq, i, j, exc, obs>>
         ELSE /\ \E c \in NanCasts : duty_seq' = DutySeq(r.y, r.sr, tick_ms, c)
              /\ i' = 1
              /\ pc' = "loop"
              /\ obs' = [obs EXCEPT !.running = TRUE,
                                    !.unit = Decimate(ToUnitNonneg(r.y), StepOf(r.sr, tick_ms))]
              /\ UNCHANGED <<j, exc>>
    /\ UNCHANGED <<job, stopFlag, sent, info_log, finished>>

\* line 102: what the job reports for an empty signal
EmptyNote == <<FALSE, "Empty waveform">>

\* EmitEmpty without the return: run() goes on with the empty signal
EmitEmpty_noReturn ==
    /\ pc = "emit_empty"
    /\ \/ /\ Emit(EmptyNote)
          /\ duty_seq' = << >>
          /\ i' = 1
          /\ pc' = "loop"
          /\ UNCHANGED <<j, exc, obs>>
       \/ /\ Catch("finished.emit", obs, Len(sent))
          /\ UNCHANGED <<duty_seq, i, finished, info_log>>
    /\ UNCHANGED <<job, stopFlag, sent>>

\* line 102: self.finished.emit(False, "Empty waveform"); return
EmitEmpty ==
    /\ pc = "emit_empty"
    /\ \/ /\ Emit(EmptyNote)
          /\ pc' = "done"
          /\ UNCHANGED <<duty_seq, i, j, exc, obs>>
       \/ /\ Catch("finished.emit", obs, Len(sent))
          /\ UNCHANGED <<duty_seq, i, finished, info_log>>
    /\ UNCHANGED <<job, stopFlag, sent>>

\* Exhausted with a loop that stops one element early
Exhausted_early(k, seq) == k >= Len(seq)

\* line 112: the for loop has no element left
Exhausted(k, seq) == k > Len(seq)

\* Break with a loop that never looks at the flag
Break_never(flag) == FALSE

\* line 113: if self._stop: break
Break(flag) == flag

\* lines 112-113: the next element of duty_seq, or the end of the loop
Loop ==
    /\ pc = "loop"
    /\ IF Exhausted(i, duty_seq) \/ Break(stopFlag)
       THEN /\ pc' = "off"
            /\ j' = 1
            /\ obs' = [obs EXCEPT !.exit = IF Exhausted(i, duty_seq) THEN "end" ELSE "stop"]
       ELSE /\ pc' = "send"
            /\ j' = 1
            /\ obs' = [obs EXCEPT !.ticksBegun = @ + 1]
    /\ UNCHANGED <<job, stopFlag, duty_seq, i, exc, sent, info_log, finished>>

\* TargetAt with the target list walked backwards
TargetAt_reversed(k) == actuators[Len(actuators) + 1 - k]

\* line 114: for addr in self.actuators
TargetAt(k) == actuators[k]

\* after the command to actuator j of the tick: the next actuator or the sleep
NextInTick ==
    IF j < Len(actuators)
    THEN j' = j + 1 /\ pc' = "send"
    ELSE j' = j /\ pc' = "sleep"

\* the history after the command to actuator j of the tick
AfterCmd == [obs EXCEPT !.ticksDone = IF j = Len(actuators) THEN @ + 1 ELSE @]

\* line 115: send_command returns
SendReturns ==
    /\ NextInTick
    /\ obs' = AfterCmd
    /\ UNCHANGED <<exc, info_log>>

\* SendRaises without the inner try: the error reaches the outer handler
SendRaises_escalates ==
    /\ Catch("send_command", [AfterCmd EXCEPT !.logFailed = @ + 1], Len(sent) + 1)
    /\ UNCHANGED info_log

\* line 116: send_command raises, the error is logged and the loop goes on
SendRaises ==
    /\ NextInTick
    /\ info_log' = Append(info_log, ErrorLine)
    /\ obs' = [AfterCmd EXCEPT !.logFailed = @ + 1]
    /\ UNCHANGED exc

\* line 116: send_command raises and log.emit raises in the inner handler
SendRaisesLogRaises ==
    /\ Catch("log.emit", [AfterCmd EXCEPT !.logFailed = @ + 1], Len(sent) + 1)
    /\ UNCHANGED info_log

\* lines 115-116: one send_command of the tick
Send ==
    /\ pc = "send"
    /\ sent' = Append(sent, OnCmd(TargetAt(j), duty_seq[i]))
    /\ (SendReturns \/ SendRaises \/ SendRaisesLogRaises)
    /\ UNCHANGED <<job, stopFlag, duty_seq, i, finished>>

\* line 117: self.msleep(self.tick_ms)
Sleep ==
    /\ pc = "sleep"
    /\ \/ /\ i' = i + 1
          /\ pc' = "loop"
          /\ UNCHANGED <<j, exc, obs>>
       \/ /\ Catch("msleep", obs, Len(sent))
          /\ UNCHANGED i
    /\ UNCHANGED <<job, stopFlag, duty_seq, sent, info_log, finished>>

\* the history after off command j of a shutdown loop
AfterOff(raised) ==
    [obs EXCEPT !.shutdowns = IF j = 1 THEN @ + 1 ELSE @,
                !.offFailed = IF raised THEN @ + 1 ELSE @]

\* lines 119-121: one off command of the shutdown loop; a raise is swallowed
\* and the loop goes on
Off ==
    /\ pc = "off"
    /\ sent' = Append(sent, OffCmd(actuators[j]))
    /\ \E raised \in BOOLEAN : obs' = AfterOff(raised)
    /\ IF j < Len(actuators)
       THEN j' = j + 1 /\ pc' = "off"
       ELSE j' = j /\ pc' = "emit_done"
    /\ UNCHANGED <<job, stopFlag, duty_seq, i, exc, info_log, finished>>

\* DoneNote that reports a cancelled run as a failure
DoneNote_stopAware == <<~stopFlag, "Waveform done">>

\* line 123: what the job reports after the shutdown loop
DoneNote == <<TRUE, "Waveform done">>

\* line 123: self.finished.emit(True, "Waveform done")
EmitDone ==
    /\ pc = "emit_done"
    /\ \/ /\ Emit(DoneNote)
          /\ pc' = "done"
          /\ UNCHANGED <<j, exc, obs>>
       \/ /\ Catch("finished.emit", obs, Len(sent))
          /\ UNCHANGED <<finished, info_log>>
    /\ UNCHANGED <<job, stopFlag, duty_seq, i, sent>>

\* lines 125-127: the handler's off loop sits in ONE try, so the first off
\* command that raises ends the loop
HandlerOff ==
    /\ pc = "h_off"
    /\ sent' = Append(sent, OffCmd(actuators[j]))
    /\ \/ /\ IF j < Len(actuators)
             THEN j' = j + 1 /\ pc' = "h_off"
             ELSE j' = j /\ pc' = "h_emit"
          /\ obs' = AfterOff(FALSE)
       \/ /\ j' = j
          /\ pc' = "h_emit"
          /\ obs' = AfterOff(TRUE)
    /\ UNCHANGED <<job, stopFlag, duty_seq, i, exc, info_log, finished>>

\* HandlerNote that reports the failed run as done
HandlerNote_success == <<TRUE, "Waveform done">>

\* line 128: what the job reports from the handler
HandlerNote == <<FALSE, exc>>

\* line 128: self.finished.emit(False, str(e))
HandlerEmit ==
    /\ pc = "h_emit"
    /\ Emit(HandlerNote)
    /\ pc' = "done"
    /\ UNCHANGED <<job, stopFlag, duty_seq, i, j, exc, sent, obs>>

\* ------------------------------------------------------------ the UI thread
\* the job is between the empty check and the end of the loop of line 112
Running == obs.running /\ pc \in {"loop", "send", "sleep"}

\* line 52, called by lines 322 and 1329 while isRunning() holds
stop ==
    /\ pc # "done"
    /\ ~stopFlag
    /\ stopFlag' = TRUE
    /\ obs' = [obs EXCEPT !.stopBegun = obs.ticksBegun,
                          !.stopDone = obs.ticksDone,
                          !.stopRunning = Running]
    /\ UNCHANGED <<job, pc, duty_seq, i, j, exc, sent, info_log, finished>>

Next ==
    \/ Extract
    \/ EmitEmpty
    \/ Loop
    \/ Send
    \/ Sleep
    \/ Off
    \/ EmitDone
    \/ HandlerOff
    \/ HandlerEmit
    \/ stop

Spec == Init /\ [][Next]_vars

TypeOK ==
    /\ pc \in {"start", "emit_empty", "loop", "send", "sleep", "off", "emit_done",
               "h_off", "h_emit", "done"}
    /\ stopFlag \in BOOLEAN
    /\ \A k \in DOMAIN duty_seq : duty_seq[k] \in 0..DutyMax
    /\ Len(actuators) >= 1

\* ------------------------------------------------------------- properties
IsOn(c) == c.en = 1
OnCmds == SelectSeq(sent, IsOn)
Done == pc = "done"

\* the job got past the empty check: it was Running at some moment
WasRunning == obs.running

\* C1 as stated: a finished job that was Running attempted the shutdown
\* sequence exactly once, never zero times and never twice.
C1_ShutdownExactlyOnce ==
    (Done /\ WasRunning) => obs.shutdowns = 1

\* C1 amended: a finished job that was Running attempted the shutdown sequence
\* once or twice, and twice exactly when an exception was raised after the
\* normal shutdown loop had already run (by the emit of line 123).
C1_ShutdownOnceOrTwice ==
    (Done /\ WasRunning) =>
        /\ obs.shutdowns \in {1, 2}
        /\ (obs.shutdowns = 2) <=> (obs.exit # "" /\ exc # "")

C1_Witness ==
    Done /\ WasRunning /\ obs.exit = "end" /\ exc = "finished.emit" /\ obs.shutdowns = 2

\* C2 as stated: a job whose loop ended on a cancel request reports
\* success=false, and only a job that walked the whole duty sequence reports
\* success=true.
C2_CancelReportsFailure ==
    Done =>
        /\ Len(finished) = 1
        /\ (obs.exit = "stop") => (finished[1][1] = FALSE)
        /\ (finished[1][1] = TRUE) => (obs.exit = "end")

\* C2 amended: a job whose loop ended on a cancel request runs the normal
\* shutdown loop and reports (True, "Waveform done"), exactly as a job that
\* walked the whole duty sequence; success=false is reported only for an empty
\* signal or an unexpected exception.
C2_CancelReportsDone ==
    Done =>
        /\ Len(finished) = 1
        /\ (obs.exit = "stop" /\ exc = "") =>
              (finished[1] = <<TRUE, "Waveform done">> /\ obs.shutdowns = 1)
        /\ (finished[1][1] = TRUE) <=> (obs.exit \in {"end", "stop"} /\ exc = "")
        /\ (finished[1][1] = FALSE) => (exc # "" \/ ~WasRunning)

C2_Witness ==
    /\ Done /\ obs.exit = "stop" /\ obs.stopRunning /\ exc = ""
    /\ obs.ticksBegun >= 1 /\ obs.ticksBegun < Len(duty_seq)

\* C3: the cancel flag is polled before each tick: once stop() has been called
\* no further tick begins, so a cancel requested when k ticks were fully
\* commanded yields at most k+1 ticks' worth of enabled commands, and the off
\* commands follow them.
C3_NoTickAfterStop ==
    stopFlag =>
        /\ obs.ticksBegun = obs.stopBegun
        /\ obs.ticksBegun <= obs.stopDone + 1
        /\ Len(OnCmds) <= (obs.stopDone + 1) * Len(actuators)
        /\ (Done /\ WasRunning) =>
              /\ Len(sent) > Len(OnCmds)
              /\ \A k \in DOMAIN sent : (k > Len(OnCmds)) <=> (sent[k].en = 0)

C3_Witness ==
    /\ Done /\ obs.stopRunning /\ obs.exit = "stop"
    /\ obs.stopDone >= 1
    /\ obs.ticksDone = obs.stopDone + 1
    /\ obs.ticksDone < Len(duty_seq)

\* the signal _extract_y returns is empty
EmptySignal == LET r == ExtractY(event) IN r.kind = "ok" /\ Len(r.y) = 0

\* C4: a job whose extraction yields zero samples never is Running, and when
\* it returns from the empty check it has issued no command at all and has
\* emitted the one notification (False, "Empty waveform").
C4_EmptyFails ==
    EmptySignal =>
        /\ ~WasRunning
        /\ pc \in {"start", "emit_empty", "h_off", "h_emit", "done"}
        /\ (exc = "") =>
              /\ sent = << >>
              /\ IF Done THEN finished = <<(<<FALSE, "Empty waveform">>)>>
                         ELSE finished = << >>

C4_Witness ==
    Done /\ EmptySignal /\ exc = "" /\ event.waveform_data /\ event.amplitude = << >>

\* C5: a run whose loop walked the whole duty sequence of N ticks with K
\* targets, with no unexpected exception, issued N*K enabled commands followed
\* by the K off commands (actuator, 0, 0, 0) in target order and reported
\* success; N is ceil(len(y) / step), and 1000 samples at 1000 Hz with
\* tick_ms = 50 and K = 2 give 20 ticks and 42 commands.
C5_FullRunCounts ==
    (Done /\ obs.exit = "end" /\ exc = "") =>
        LET r == ExtractY(event)
            N == NumTicks(Len(r.y), StepOf(r.sr, tick_ms))
            K == Len(actuators)
        IN  /\ Len(duty_seq) = N
            /\ obs.ticksDone = N
            /\ Len(sent) = N * K + K
            /\ \A k \in 1..(N * K) : sent[k].en = 1
            /\ \A k \in 1..K : sent[N * K + k] = Cmd(actuators[k], 0, 0, 0)
            /\ finished = <<(<<TRUE, "Waveform done">>)>>
            /\ (Len(r.y) = 1000 /\ r.sr = 1000 /\ tick_ms = 50 /\ K = 2) =>
                  (N = 20 /\ Len(sent) = 42)

C5_Witness ==
    /\ Done /\ obs.exit = "end" /\ exc = "" /\ ~stopFlag
    /\ Len(event.gm.y) = 1000 /\ Len(actuators) = 2 /\ Len(sent) = 42

\* C6: the enabled commands on the channel are, at every moment, a prefix of
\* the sequence (tick 1, target 1), (tick 1, target 2), ..., (tick 2, target
\* 1), ...: ticks in the order of duty_seq, targets in list order, each with
\* the duty of its tick; a loop that ran to its end skipped none of them.
C6_TickOrder ==
    LET on == OnCmds
        K  == Len(actuators)
    IN  /\ Len(on) <= Len(duty_seq) * K
        /\ \A k \in DOMAIN on :
              on[k] = Cmd(actuators[((k - 1) % K) + 1], duty_seq[((k - 1) \div K) + 1],
                          freq_code, 1)
        /\ \A k \in DOMAIN sent : (sent[k].en = 1) => (k <= Len(on))
        /\ (obs.exit = "end") => (Len(on) = Len(duty_seq) * K)

C6_Witness ==
    /\ Done /\ obs.exit = "end" /\ exc = ""
    /\ Len(actuators) = 2 /\ Len(duty_seq) = 3
    /\ duty_seq[1] # duty_seq[2] /\ duty_seq[2] # duty_seq[3]

ErrorLines == Cardinality({k \in DOMAIN info_log : info_log[k] = ErrorLine})

\* C7: each enabled command that raises produces one log line and nothing
\* else: the run is not aborted (every target of every begun tick is
\* commanded, every tick is walked unless cancelled), it ends with the
\* shutdown loop and (True, "Waveform done"), and a run that does fail was
\* failed by another call than send_command.
C7_CommandErrorRecovered ==
    /\ (exc # "log.emit") => (ErrorLines = obs.logFailed)
    /\ (exc = "log.emit") => (ErrorLines = obs.logFailed - 1)
    /\ (Done /\ WasRunning /\ exc = "") =>
          /\ Len(OnCmds) = obs.ticksBegun * Len(actuators)
          /\ obs.ticksDone = obs.ticksBegun
          /\ (obs.exit = "end") => (obs.ticksBegun = Len(duty_seq))
          /\ obs.shutdowns = 1
          /\ finished = <<(<<TRUE, "Waveform done">>)>>
    /\ exc \in {"", "sample_rate", "log.emit", "msleep", "finished.emit"}

C7_Witness ==
    /\ Done /\ exc = "" /\ obs.exit = "end"
    /\ Len(actuators) = 2 /\ Len(duty_seq) = 3
    /\ obs.logFailed = 6
    /\ finished = <<(<<TRUE, "Waveform done">>)>>

\* C8 as stated: on every path out of Running an off command is attempted for
\* every actuator of the target list, also when the off command to an earlier
\* actuator raised.
C8_OffEveryActuator ==
    (Done /\ WasRunning) =>
        \A k \in DOMAIN actuators : \E m \in DOMAIN sent : sent[m] = OffCmd(actuators[k])

PlaybackLines == Cardinality({k \in DOMAIN info_log : info_log[k][1] = "Playback"})

\* C9: a job has emitted no completion notification while run() is executing
\* and exactly one when run() has returned, on every path; the log holds one
\* "Playback: ..." line per notification, with the notification's message.
C9_ExactlyOneNotification ==
    /\ Len(finished) = IF Done THEN 1 ELSE 0
    /\ PlaybackLines = Len(finished)
    /\ Done => (info_log[Len(info_log)] = PlaybackLine(finished[1][2]))

C9_Witness ==
    Done /\ exc = "finished.emit" /\ obs.exit = "stop" /\ Len(finished) = 1

\* C10: an exception that reaches the outer handler is followed by off
\* commands only, beginning with the off command to the first target, and the
\* job ends with the one notification (False, text of the exception).
C10_UnexpectedCaught ==
    (exc # "") =>
        /\ pc \in {"h_off", "h_emit", "done"}
        /\ obs.sentAtExc >= 0 /\ obs.sentAtExc <= Len(sent)
        /\ \A k \in DOMAIN sent : (k > obs.sentAtExc) => (sent[k].en = 0)
        /\ (pc # "h_off") =>
              /\ Len(sent) > obs.sentAtExc
              /\ sent[obs.sentAtExc + 1] = OffCmd(actuators[1])
        /\ Done => (finished = <<(<<FALSE, exc>>)>>)

C10_Witness ==
    /\ Done /\ exc = "msleep" /\ ~stopFlag
    /\ obs.ticksBegun >= 1 /\ obs.ticksBegun < Len(duty_seq)
    /\ Len(actuators) = 2 /\ Len(sent) = obs.sentAtExc + 2

\* ---------------------------------------------- lines 104-110 on bare arrays
\* bound of the arrays of QSpec
QMaxLen == 3

QAmps == {-60000000, -20, 0, 5, 400, 20000000, 60000000,
          NonFinite.nan, NonFinite.posinf, NonFinite.neginf}
QArrays == SeqsUpTo(QAmps, QMaxLen)
QRates == {0, 10, 30, 40, 50, 1000}
QTicks == {InitTickMs(1), InitTickMs(DefaultTickMs)}

\* the job variables of a job that does not exist
JobIdle ==
    /\ event = MkEvent(FALSE, Accessor("absent", << >>), NoAccessor, << >>, Rate("missing", 0))
    /\ actuators = <<0>>
    /\ freq_code = 4
    /\ tick_ms = InitTickMs(DefaultTickMs)
    /\ stopFlag = FALSE
    /\ pc = "idle"
    /\ duty_seq = << >>
    /\ i = 0
    /\ j = 0
    /\ exc = ""
    /\ sent = << >>
    /\ info_log = << >>
    /\ finished = << >>
    /\ obs = NoObs

QInit ==
    /\ JobIdle
    /\ AppIdle
    /\ ext = ExtIdle
    /\ \E y \in QArrays, sr \in QRates, tick \in QTicks :
         quant = [QuantIdle EXCEPT !.pc = "normalize", !.y = y, !.sr = sr, !.tick = tick]

\* line 104: y = self._to_unit_nonneg(y)
QNormalize ==
    /\ quant.pc = "normalize"
    /\ quant' = [quant EXCEPT !.u = ToUnitNonneg(quant.y), !.pc = "step"]
    /\ UNCHANGED <<jobvars, ext, appvars>>

\* line 105: step = max(1, int(round(float(sr) * (self.tick_ms / 1000.0))))
QStep ==
    /\ quant.pc = "step"
    /\ quant' = [quant EXCEPT !.step = StepOf(quant.sr, quant.tick), !.pc = "decimate"]
    /\ UNCHANGED <<jobvars, ext, appvars>>

\* line 106: y = y[::step]
QDecimate ==
    /\ quant.pc = "decimate"
    /\ quant' = [quant EXCEPT !.dec = Decimate(quant.u, quant.step), !.pc = "rint"]
    /\ UNCHANGED <<jobvars, ext, appvars>>

\* line 108: duty_seq = np.rint(y * 15.0).astype(int)
QRint ==
    /\ quant.pc = "rint"
    /\ \E c \in NanCasts :
         quant' = [quant EXCEPT !.r = [k \in DOMAIN quant.dec |-> Rint15(quant.dec[k], c)],
                                !.pc = "floor"]
    /\ UNCHANGED <<jobvars, ext, appvars>>

\* line 109: duty_seq = np.where((y > 1e-6) & (duty_seq == 0), 1, duty_seq)
QFloor ==
    /\ quant.pc = "floor"
    /\ quant' = [quant EXCEPT
                   !.f = [k \in DOMAIN quant.dec |-> FloorFix(quant.dec[k], quant.r[k])],
                   !.pc = "clip"]
    /\ UNCHANGED <<jobvars, ext, appvars>>

\* line 110: duty_seq = np.clip(duty_seq, 0, 15)
QClip ==
    /\ quant.pc = "clip"
    /\ quant' = [quant EXCEPT !.d = [k \in DOMAIN quant.f |-> ClipDuty(quant.f[k])],
                              !.pc = "done"]
    /\ UNCHANGED <<jobvars, ext, appvars>>

QNext ==
    \/ QNormalize
    \/ QStep
    \/ QDecimate
    \/ QRint
    \/ QFloor
    \/ QClip

QSpec == QInit /\ [][QNext]_vars

\* the one-call form of lines 104-110 gives what the line-by-line form gives
QAgrees ==
    (quant.pc = "done") =>
        \A c \in NanCasts : quant.d = DutySeq(quant.y, quant.sr, quant.tick, c)

\* C15: every enabled command on the channel carries a duty in 0..15, and
\* the duty of a tick whose unit-range value is exactly 0 is 0 and of one whose
\* value is exactly 1 is 15; every command with enabled=0 carries duty 0 and
\* frequency code 0.
C15_DutyRange ==
    /\ \A k \in DOMAIN sent :
          /\ (sent[k].en = 1) => (sent[k].duty \in 0..15)
          /\ (sent[k].en = 0) => (sent[k].duty = 0 /\ sent[k].freq = 0)
    /\ WasRunning =>
          /\ Len(duty_seq) = Len(obs.unit)
          /\ \A k \in DOMAIN obs.unit :
                /\ (obs.unit[k][1] = 0) => (duty_seq[k] = 0)
                /\ (obs.unit[k][1] = obs.unit[k][2]) => (duty_seq[k] = 15)
    /\ \A k \in DOMAIN OnCmds :
          LET v == obs.unit[((k - 1) \div Len(actuators)) + 1] IN
          /\ (v[1] = 0) => (OnCmds[k].duty = 0)
          /\ (v[1] = v[2]) => (OnCmds[k].duty = 15)

C15_Witness ==
    /\ Done /\ obs.exit = "end"
    /\ \E k \in DOMAIN sent : sent[k].en = 1 /\ sent[k].duty = 15
    /\ \E k \in DOMAIN sent : sent[k].en = 1 /\ sent[k].duty = 0
    /\ \E k \in DOMAIN sent : sent[k].en = 1 /\ sent[k].duty = 1
    /\ \E k \in DOMAIN sent : sent[k].en = 0

\* v > 1e-6 for the fraction v, written out: a numerator of 2000 or more
\* exceeds every denominator of the model divided by 10^6
Above1e6(v) == IF v[1] >= 2000 THEN TRUE ELSE v[1] * 1000000 > v[2]

\* C17: for every downsampled unit-range value v, v > 1e-6 gives a duty of at
\* least 1 (exactly 1 when round(v*15) is 0) and v <= 1e-6 gives duty 0; line
\* 109 leaves every duty that rounding made non-zero as it is; all duties are
\* in 0..15.
C17_FloorCorrection ==
    (quant.pc = "done") =>
        /\ Len(quant.d) = Len(quant.dec)
        /\ \A k \in DOMAIN quant.dec :
              LET v == quant.dec[k] IN
              /\ quant.d[k] \in 0..15
              /\ Above1e6(v) => (quant.d[k] >= 1)
              /\ (Above1e6(v) /\ quant.r[k] = 0) => (quant.d[k] = 1)
              /\ (~Above1e6(v)) => (quant.d[k] = 0)
              /\ (quant.r[k] # 0) => (quant.f[k] = quant.r[k])
              /\ (quant.r[k] \in 1..15) => (quant.d[k] = quant.r[k])

C17_Witness ==
    /\ quant.pc = "done"
    /\ \E k \in DOMAIN quant.dec :
          Above1e6(quant.dec[k]) /\ quant.r[k] = 0 /\ quant.d[k] = 1
    /\ \E k \in DOMAIN quant.dec : quant.dec[k][1] = 0 /\ quant.d[k] = 0
    /\ \E k \in DOMAIN quant.dec : quant.r[k] = 15 /\ quant.d[k] = 15

\* C18: step is the integer nearest to sample_rate * tick_ms / 1000 (a tie
\* goes to the even neighbour, as Python's round does), and 1 when that is 0;
\* the decimated array has one element for each index 0, step, 2*step, ...
\* below the length N, that is ceil(N / step) elements; rate 0 gives step 1
\* and rate 1000 with tick_ms = 50 gives step 50.
C18_DecimationStep ==
    (quant.pc \in {"rint", "floor", "clip", "done"}) =>
        LET s == quant.step
            p == quant.sr * quant.tick
            N == Len(quant.u)
            n == Len(quant.dec)
        IN  /\ s >= 1
            /\ (2 * p <= 1000) => (s = 1)
            /\ (2 * p > 1000) =>
                  /\ 2 * (1000 * s - p) <= 1000
                  /\ 2 * (p - 1000 * s) <= 1000
                  /\ (2 * (p - 1000 * s) \in {1000, -1000}) => (s % 2 = 0)
            /\ (n - 1) * s < N /\ N <= n * s
            /\ \A k \in 1..n : quant.dec[k] = quant.u[(k - 1) * s + 1]
            /\ (quant.sr = 0) => (s = 1)
            /\ (quant.sr = 1000 /\ quant.tick = 50) => (s = 50)

C18_Witness ==
    /\ quant.pc = "done"
    /\ quant.sr = 50 /\ quant.tick = 50 /\ quant.step = 2
    /\ Len(quant.y) = 3 /\ Len(quant.dec) = 2

QIndex == DOMAIN quant.y
QMinOf == SeqMin(quant.y)
QMaxOf == SeqMax(quant.y)
QNormalized == quant.pc \notin {"idle", "normalize"}

\* v <= w for two unit-range values that have the same denominator or of
\* which one is exactly 0 or exactly 1
UnitLeq(v, w) ==
    IF v[2] = w[2] THEN v[1] <= w[1] ELSE (v[1] = 0 \/ w[1] = w[2])

\* what C19 says of the array y and its image u, with y ordered as numbers
\* (+inf above and -inf below every finite value): same length, values in
\* [0,1], and for a spread of 1e-12 or more 0 at the minimum, 1 at the
\* maximum, and no larger value with a smaller image
C19_Shape(y, u) ==
    /\ Len(u) = Len(y)
    /\ \A k \in DOMAIN u : 0 <= u[k][1] /\ u[k][1] <= u[k][2] /\ u[k][2] > 0
    /\ (SeqMax(y) - SeqMin(y) >= 10) =>
          /\ \A k \in DOMAIN y : (y[k] = SeqMin(y)) => (u[k][1] = 0)
          /\ \A k \in DOMAIN y : (y[k] = SeqMax(y)) => (u[k][1] = u[k][2])
          /\ \A a, b \in DOMAIN y :
                (y[a] <= y[b]) => UnitLeq(u[a], u[b])

\* lines 87-96 on arrays in range: for every non-empty array whose spread
\* max - min, taken after NaN and infinite entries are replaced by 0, is a
\* finite float, the image is what C19 says of the array after replacement
NormalizeWithinRange ==
    (QNormalized /\ Len(quant.y) > 0) =>
        LET z == NanToNum(quant.y)
        IN  (SeqMax(z) - SeqMin(z) <= NonFinite.max) => C19_Shape(z, quant.u)

\* C19: for every non-empty array y of finite values the image has the length
\* of y and values in [0,1], and when the values of y are not all within
\* 1e-12 of each other it is 0 at the minimum of y, 1 at the maximum of y and
\* keeps the order.
C19_NormalizeEveryArray ==
    (QNormalized /\ Len(quant.y) > 0 /\ \A k \in QIndex : IsFinite(quant.y[k])) =>
        C19_Shape(quant.y, quant.u)

\* C20: the empty array comes back empty; an array of finite values whose
\* spread is below 1e-12 becomes all ones when its values are > 0 and all
\* zeros when they are <= 0 (a spread that straddles 0 goes by the maximum),
\* and its duties are then all 15, respectively all 0.
C20_DegenerateInput ==
    QNormalized =>
        /\ (Len(quant.y) = 0) => (quant.u = << >>)
        /\ (/\ Len(quant.y) > 0
            /\ \A k \in QIndex : IsFinite(quant.y[k])
            /\ QMaxOf - QMinOf < 10) =>
              /\ Len(quant.u) = Len(quant.y)
              /\ (QMaxOf > 0) =>
                    /\ \A k \in QIndex : quant.u[k] = <<1, 1>>
                    /\ (quant.pc = "done") => (\A k \in DOMAIN quant.d : quant.d[k] = 15)
              /\ (QMaxOf <= 0) =>
                    /\ \A k \in QIndex : quant.u[k] = <<0, 1>>
                    /\ (quant.pc = "done") => (\A k \in DOMAIN quant.d : quant.d[k] = 0)

C20_Witness ==
    /\ quant.pc = "done" /\ Len(quant.y) = 3 /\ quant.step = 1
    /\ quant.y[1] = 0 /\ quant.y[2] = 5 /\ quant.y[3] = 0
    /\ quant.d = <<15, 15, 15>>

\* ------------------------------------------ the application, lines 286-343
\* line 338: tick_ms=50
PlayTickMs == 50
\* line 291: the duty of the test pulse
TestDuty == 8

\* two samples played as two ticks: duties 15 and 0
AppWave == <<40, 0>>
Mappings == {<< >>, <<2, 1>>}

\* what a play request carries: the event and its actuator_mapping.active_actuators
AppEvent(ev, mapping) == [ev |-> ev, mapping |-> mapping]

AppEvents ==
    \* without waveform data
    {AppEvent(NoJob.event, << >>)}
    \* with samples, with and without a mapping
    \cup {AppEvent(MkEvent(TRUE, Accessor("ok", AppWave), NoAccessor, << >>, Rate("ok", 0)), m) :
            m \in Mappings}
    \* with waveform data that holds no sample
    \cup {AppEvent(MkEvent(TRUE, Accessor("ok", << >>), Accessor("ok", << >>), << >>,
                           Rate("ok", 0)), << >>)}
    \* with samples and a sample rate that float() rejects
    \cup {AppEvent(MkEvent(TRUE, Accessor("ok", AppWave), NoAccessor, << >>, Rate("bad", 0)),
                   << >>)}

\* the event after a CSV import has replaced its waveform_data (line 1208)
ImportedEvent == MkEvent(TRUE, Accessor("ok", AppWave), NoAccessor, << >>, Rate("ok", 0))

\* what the user types into the dialog of line 464; << >> is no id at all
TargetChoices == {<< >>, <<1, 2>>}

\* line 374: for i in range(8)
FreqMenu == 0..7
\* the entry the user selects: the last one
FreqPicks == {k \in FreqMenu : k + 1 \notin FreqMenu}

\* MenuCode for a menu whose entries are numbered from 1
MenuCode_fromOne(k) == k + 1

\* lines 375 and 383: int(act.text()) of the entry made with str(i)
MenuCode(k) == k

\* the value of the spin box of line 282
TestIds == {0, 1}

\* lines 309-317: the mapping of the event, or device_targets
ResolveFirst(mapping, targets) ==
    IF Len(mapping) > 0 THEN [k \in DOMAIN mapping |-> ParseActuator(mapping[k])] ELSE targets

\* lines 327-335: the mapping of the event, or [0]
ResolveSecond(mapping) ==
    IF Len(mapping) > 0 THEN [k \in DOMAIN mapping |-> ParseActuator(mapping[k])] ELSE <<0>>

JobIds == 1..MaxJobs

\* QThread.isRunning() of job n, 0 being None: from start() to the return of run()
IsRunning(n) == n # 0 /\ jobs[n].pc \notin {"none", "done"}

Created == {n \in JobIds : jobs[n].pc # "none"}

\* the step that job n takes next hands a command to send_command
JobSends(n) == jobs[n].pc \in {"send", "off", "h_off"}

\* JobCmd that reads the frequency code that is selected now
JobCmd_live(n) ==
    LET r == jobs[n] IN
    IF r.pc = "send"
    THEN Cmd(r.actuators[r.j], r.duty_seq[r.i], ui.device_freq_code, 1)
    ELSE Cmd(r.actuators[r.j], 0, 0, 0)

\* that command: line 115, or line 120 or 126
JobCmd(n) ==
    LET r == jobs[n] IN
    IF r.pc = "send"
    THEN Cmd(r.actuators[r.j], r.duty_seq[r.i], r.freq_code, 1)
    ELSE Cmd(r.actuators[r.j], 0, 0, 0)

\* the step that the UI thread takes next can hand a command to send_command
TestSends == (ui.pc = "idle" /\ ui.connected) \/ ui.pc = "test_sleep"

\* that command for the spin box value aid: line 291, or line 293
TestCmd(aid) ==
    IF ui.pc = "idle" THEN Cmd(aid, TestDuty, ui.device_freq_code, 1) ELSE Cmd(aid, 0, 0, 0)

\* --- the UI thread
\* lines 381-385: self.device_freq_code = int(act.text())
on_freq_action ==
    /\ ui.pc = "idle"
    /\ \E k \in FreqPicks : ui' = [ui EXCEPT !.device_freq_code = MenuCode(k)]
    /\ UNCHANGED <<jobvars, quant, ext, jobs>>

\* lines 463-482: a non-empty list of ids becomes device_targets
choose_actuators ==
    /\ ui.pc = "idle"
    /\ \E ids \in TargetChoices :
         ui' = IF Len(ids) > 0 THEN [ui EXCEPT !.device_targets = ids] ELSE ui
    /\ UNCHANGED <<jobvars, quant, ext, jobs>>

\* lines 1032-1050: connect, or disconnect; ok is what the serial layer reports
toggle_connection ==
    /\ ui.pc = "idle"
    /\ \E ok \in BOOLEAN :
         ui' = IF ok THEN [ui EXCEPT !.connected = ~ui.connected] ELSE ui
    /\ UNCHANGED <<jobvars, quant, ext, jobs>>

\* on_device_test that waits until no job is running
on_device_test_exclusive ==
    /\ ui.pc = "idle"
    /\ \A n \in JobIds : ~IsRunning(n)
    /\ IF ~ui.connected
       THEN UNCHANGED ui
       ELSE \/ ui' = [ui EXCEPT !.pc = "test_sleep"]
            \/ UNCHANGED ui
    /\ UNCHANGED <<jobvars, quant, ext, jobs>>

\* lines 286-291: without a connection a warning and nothing else; with one,
\* send_command(TestCmd) returns, or raises and line 295 ends the handler
on_device_test ==
    /\ ui.pc = "idle"
    /\ IF ~ui.connected
       THEN UNCHANGED ui
       ELSE \/ ui' = [ui EXCEPT !.pc = "test_sleep"]
            \/ UNCHANGED ui
    /\ UNCHANGED <<jobvars, quant, ext, jobs>>

\* lines 292-293: after time.sleep(0.2), send_command(TestCmd)
TestOff ==
    /\ ui.pc = "test_sleep"
    /\ ui' = [ui EXCEPT !.pc = "idle"]
    /\ UNCHANGED <<jobvars, quant, ext, jobs>>

\* Play that stops the running job before it looks at the request
Play_stopsFirst ==
    /\ ui.pc = "idle"
    /\ \E e \in AppEvents, reset \in BOOLEAN :
         LET targets == IF reset THEN <<0>> ELSE ui.device_targets IN
         /\ reset => e.ev.waveform_data
         /\ IF ~e.ev.waveform_data \/ ~ui.connected
            THEN /\ ui' = [ui EXCEPT !.pc = "play_rejected", !.device_targets = targets]
                 /\ jobs' = [n \in JobIds |->
                               IF IsRunning(n) THEN [jobs[n] EXCEPT !.stop = TRUE] ELSE jobs[n]]
            ELSE /\ Cardinality(Created) < MaxJobs
                 /\ ui' = [ui EXCEPT !.pc = "stop_prev",
                                     !.device_targets = targets,
                                     !.req = e.ev,
                                     !.req_mapping = e.mapping,
                                     !.req_targets = targets,
                                     !.acts = ResolveFirst(e.mapping, targets),
                                     !.prevRunning = FALSE,
                                     !.timedOut = FALSE]
                 /\ UNCHANGED jobs
    /\ UNCHANGED <<jobvars, quant, ext>>

\* lines 299-317 of play_waveform_on_device; reset is the entry of lines
\* 908-909 and 984-985, which sets device_targets to [0] first.  A request
\* without waveform data or without a connection ends in the message box of
\* line 302 or 305.
Play ==
    /\ ui.pc = "idle"
    /\ \E e \in AppEvents, reset \in BOOLEAN :
         LET targets == IF reset THEN <<0>> ELSE ui.device_targets IN
         /\ reset => e.ev.waveform_data
         /\ IF ~e.ev.waveform_data \/ ~ui.connected
            THEN ui' = [ui EXCEPT !.pc = "play_rejected", !.device_targets = targets]
            ELSE /\ Cardinality(Created) < MaxJobs
                 /\ ui' = [ui EXCEPT !.pc = "stop_prev",
                                     !.device_targets = targets,
                                     !.req = e.ev,
                                     !.req_mapping = e.mapping,
                                     !.req_targets = targets,
                                     !.acts = ResolveFirst(e.mapping, targets),
                                     !.prevRunning = FALSE,
                                     !.timedOut = FALSE]
    /\ UNCHANGED <<jobvars, quant, ext, jobs>>

\* lines 302-303 and 305-306: the user closes the message box, return
dismiss ==
    /\ ui.pc = "play_rejected"
    /\ ui' = [ui EXCEPT !.pc = "idle"]
    /\ UNCHANGED <<jobvars, quant, ext, jobs>>

\* RequestStop that leaves the flag alone
RequestStop_none(n) == UNCHANGED jobs

\* lines 52 and 322: self._play_thread.stop()
RequestStop(n) == jobs' = [jobs EXCEPT ![n].stop = TRUE]

\* lines 321-322
StopPrev ==
    /\ ui.pc = "stop_prev"
    /\ IF IsRunning(ui.play_thread)
       THEN /\ RequestStop(ui.play_thread)
            /\ ui' = [ui EXCEPT !.pc = "wait", !.prevRunning = TRUE]
       ELSE /\ ui' = [ui EXCEPT !.pc = "create"]
            /\ UNCHANGED jobs
    /\ UNCHANGED <<jobvars, quant, ext>>

\* line 323: wait(800) returns because run() returned
WaitReturns ==
    /\ ui.pc = "wait"
    /\ ~IsRunning(ui.play_thread)
    /\ ui' = [ui EXCEPT !.pc = "create"]
    /\ UNCHANGED <<jobvars, quant, ext, jobs>>

\* WaitTimesOut that gives the request up
WaitTimesOut_givesUp ==
    /\ ui.pc = "wait"
    /\ IsRunning(ui.play_thread)
    /\ ui' = [ui EXCEPT !.pc = "idle", !.timedOut = TRUE]
    /\ UNCHANGED <<jobvars, quant, ext, jobs>>

\* line 323: wait(800) returns after 800 ms while run() has not returned
WaitTimesOut ==
    /\ ui.pc = "wait"
    /\ IsRunning(ui.play_thread)
    /\ ui' = [ui EXCEPT !.pc = "create", !.timedOut = TRUE]
    /\ UNCHANGED <<jobvars, quant, ext, jobs>>

\* lines 43-50 with the arguments of lines 337-339, then start() of line 342
NewJob(ev, acts, freq) ==
    [NoJob EXCEPT !.pc = "start",
                  !.event = ev,
                  !.requested = ev,
                  !.actuators = InitActuators(acts),
                  !.freq_code = freq]

\* NewPlayThread that keeps the reference it had
NewPlayThread_kept(n) == ui.play_thread

\* line 337: self._play_thread = the job just made
NewPlayThread(n) == n

\* lines 327-342; the locals of play_waveform_on_device end with it
StartJob ==
    /\ ui.pc = "create"
    /\ LET n    == Cardinality(Created) + 1
           acts == ResolveSecond(ui.req_mapping)
       IN  /\ n \in JobIds
           /\ jobs' = [jobs EXCEPT ![n] = NewJob(ui.req, acts, ui.device_freq_code)]
           /\ ui' = [ui EXCEPT !.pc = "idle",
                               !.play_thread = NewPlayThread(n),
                               !.req = UiIdle.req,
                               !.req_mapping = << >>,
                               !.req_targets = << >>,
                               !.acts = << >>,
                               !.prevRunning = FALSE,
                               !.timedOut = FALSE]
    /\ UNCHANGED <<jobvars, quant, ext>>

\* --- run() of job n, lines 98-128.  Every call that run() makes returns,
\* except that send_command may raise where the raise is caught on the spot
\* (lines 116, 121 and 127) and that _extract_y raises on a sample rate that
\* is no number (line 85), which takes the job into the handler of line 124;
\* Spec follows the other paths into the handler.
\* run() returns after a notification; no field of the job is read again
JReturn(r) == [NoJob EXCEPT !.pc = "done", !.notes = r.notes + 1]

\* line 100 was the one read of self.event: the job goes on without it
AfterExtract(r) == [r EXCEPT !.event = NoJob.event, !.requested = NoJob.requested]

\* lines 100-110 for every event a request can carry: the samples that
\* _extract_y finds and, per cast of NaN, the duty of every tick
Quantized ==
    [ev \in {e.ev : e \in AppEvents} \cup {ImportedEvent} |->
       LET r == ExtractY(ev) IN
         [raises |-> r.kind = "raise",
          empty |-> IsEmpty(r.y),
          duty  |-> [c \in NanCasts |->
                       IF IsEmpty(r.y) THEN << >>
                       ELSE DutySeq(r.y, r.sr, InitTickMs(PlayTickMs), c)]]]

\* lines 100-110
JExtract(n) ==
    /\ jobs[n].pc = "start"
    /\ LET q == Quantized[jobs[n].event]
           r == AfterExtract(jobs[n])
       IN  IF q.raises
           THEN jobs' = [jobs EXCEPT ![n] = [r EXCEPT !.pc = "h_off", !.j = 1,
                                                      !.shutdowns = @ + 1]]
           ELSE IF q.empty
           THEN jobs' = [jobs EXCEPT ![n] = [r EXCEPT !.pc = "emit_empty"]]
           ELSE \E c \in NanCasts :
                  jobs' = [jobs EXCEPT ![n] = [r EXCEPT !.pc = "loop",
                                                        !.duty_seq = q.duty[c],
                                                        !.i = 1,
                                                        !.running = TRUE]]
    /\ UNCHANGED <<jobvars, quant, ext, ui>>

\* line 102: finished.emit(False, "Empty waveform"); return
JEmitEmpty(n) ==
    /\ jobs[n].pc = "emit_empty"
    /\ jobs' = [jobs EXCEPT ![n] = JReturn(@)]
    /\ UNCHANGED <<jobvars, quant, ext, ui>>

\* JLoop without the test of line 113
JLoop_ignoresStop(n) ==
    /\ jobs[n].pc = "loop"
    /\ IF Exhausted(jobs[n].i, jobs[n].duty_seq)
       THEN jobs' = [jobs EXCEPT ![n].pc = "off", ![n].j = 1, ![n].shutdowns = @ + 1]
       ELSE jobs' = [jobs EXCEPT ![n].pc = "send", ![n].j = 1]
    /\ UNCHANGED <<jobvars, quant, ext, ui>>

\* lines 112-113: the next tick, or out of the loop to line 119
JLoop(n) ==
    /\ jobs[n].pc = "loop"
    /\ IF Exhausted(jobs[n].i, jobs[n].duty_seq) \/ Break(jobs[n].stop)
       THEN jobs' = [jobs EXCEPT ![n].pc = "off", ![n].j = 1, ![n].shutdowns = @ + 1]
       ELSE jobs' = [jobs EXCEPT ![n].pc = "send", ![n].j = 1]
    /\ UNCHANGED <<jobvars, quant, ext, ui>>

\* the next actuator of the loop of line 114 or 119, or the step after it
JNextTarget(r, again, after) ==
    IF r.j < Len(r.actuators)
    THEN [r EXCEPT !.j = r.j + 1, !.pc = again]
    ELSE [r EXCEPT !.pc = after]

\* lines 114-116: send_command(JobCmd(n)) returns, or raises and is logged
JSend(n) ==
    /\ jobs[n].pc = "send"
    /\ jobs' = [jobs EXCEPT ![n] = JNextTarget(@, "send", "sleep")]
    /\ UNCHANGED <<jobvars, quant, ext, ui>>

\* JSleep that goes back to the tick it came from
JSleep_sameTick(n) ==
    /\ jobs[n].pc = "sleep"
    /\ jobs' = [jobs EXCEPT ![n].pc = "loop"]
    /\ UNCHANGED <<jobvars, quant, ext, ui>>

\* line 117: self.msleep(self.tick_ms)
JSleep(n) ==
    /\ jobs[n].pc = "sleep"
    /\ jobs' = [jobs EXCEPT ![n].pc = "loop", ![n].i = @ + 1]
    /\ UNCHANGED <<jobvars, quant, ext, ui>>

\* lines 119-121: send_command(JobCmd(n)), a raise swallowed
JOff(n) ==
    /\ jobs[n].pc = "off"
    /\ jobs' = [jobs EXCEPT ![n] = JNextTarget(@, "off", "emit_done")]
    /\ UNCHANGED <<jobvars, quant, ext, ui>>

\* line 123: finished.emit(True, "Waveform done")
JEmitDone(n) ==
    /\ jobs[n].pc = "emit_done"
    /\ jobs' = [jobs EXCEPT ![n] = JReturn(@)]
    /\ UNCHANGED <<jobvars, quant, ext, ui>>

\* lines 125-127: send_command(JobCmd(n)) returns, or raises and ends the loop
JHandlerOff(n) ==
    /\ jobs[n].pc = "h_off"
    /\ \/ jobs' = [jobs EXCEPT ![n] = JNextTarget(@, "h_off", "h_emit")]
       \/ jobs' = [jobs EXCEPT ![n].pc = "h_emit"]
    /\ UNCHANGED <<jobvars, quant, ext, ui>>

\* line 128: finished.emit(False, str(e))
JHandlerEmit(n) ==
    /\ jobs[n].pc = "h_emit"
    /\ jobs' = [jobs EXCEPT ![n] = JReturn(@)]
    /\ UNCHANGED <<jobvars, quant, ext, ui>>

JobStep(n) ==
    \/ JExtract(n)
    \/ JEmitEmpty(n)
    \/ JLoop(n)
    \/ JSend(n)
    \/ JSleep(n)
    \/ JOff(n)
    \/ JEmitDone(n)
    \/ JHandlerOff(n)
    \/ JHandlerEmit(n)

\* the steps of the UI thread that no user triggers
UiStep ==
    \/ StopPrev
    \/ WaitReturns
    \/ WaitTimesOut
    \/ StartJob
    \/ TestOff

AppInit ==
    /\ JobIdle
    /\ quant = QuantIdle
    /\ ext = ExtIdle
    /\ AppIdle

\* playing, the test pulse and the connection
PlaybackNext ==
    \/ toggle_connection
    \/ on_device_test
    \/ Play
    \/ dismiss
    \/ UiStep
    \/ \E n \in JobIds : JobStep(n)

AppNext ==
    \/ on_freq_action
    \/ choose_actuators
    \/ PlaybackNext

AppSpec == AppInit /\ [][AppNext]_vars

\* the application with the two settings of the Device menu left as they are:
\* no condition of play_waveform_on_device, stop(), wait() or run() reads
\* device_targets or device_freq_code
PlaybackSpec == AppInit /\ [][PlaybackNext]_vars

\* every thread that can take a step takes one: wait(800) and sleep(0.2)
\* return, and a started run() is scheduled until it returns
FairPlaybackSpec ==
    /\ PlaybackSpec
    /\ WF_vars(UiStep)
    /\ \A n \in JobIds : WF_vars(JobStep(n))

AppTypeOK ==
    /\ ui.pc \in {"idle", "test_sleep", "stop_prev", "wait", "create", "close_wait", "closed",
                "play_rejected"}
    /\ ui.device_freq_code \in Nat
    /\ ui.play_thread \in 0..MaxJobs
    /\ \A n \in JobIds :
          /\ jobs[n].pc \in {"none", "start", "emit_empty", "loop", "send", "sleep", "off",
                             "emit_done", "h_off", "h_emit", "done"}
          /\ jobs[n].notes \in 0..1
          /\ jobs[n].shutdowns \in 0..1

\* the jobs between start() and the return of run()
Active == {n \in JobIds : IsRunning(n)}

\* job n was left running by a request whose wait(800) timed out
Abandoned(n) ==
    /\ IsRunning(n)
    /\ \/ n < ui.play_thread
       \/ n = ui.play_thread /\ ui.pc = "create" /\ ui.timedOut

\* C11: when a play request found the previous job running (line 321), that
\* job's cancel flag is set from line 322 on, through the wait and at the
\* moment the new job is made and started, hence before any command of the
\* new job; the new job exists only after this.
C11_CancelBeforeStart ==
    /\ (ui.pc \in {"wait", "create"} /\ ui.prevRunning /\ IsRunning(ui.play_thread)) =>
          jobs[ui.play_thread].stop
    /\ (ui.pc \in {"stop_prev", "wait", "create"}) =>
          \A n \in JobIds : n > ui.play_thread => jobs[n].pc = "none"
    /\ \A n \in JobIds :
          (n > 1 /\ jobs[n].pc # "none" /\ IsRunning(n - 1)) => jobs[n - 1].stop

C11_Witness ==
    /\ ui.pc = "idle" /\ ui.play_thread = 2
    /\ jobs[2].pc = "send" /\ jobs[2].i = 1 /\ jobs[2].j = 1
    /\ IsRunning(1) /\ jobs[1].stop

\* C12 as stated: at most one job is active at any time, for every timing of
\* the wait.
C12_AtMostOneActive == Cardinality(Active) <= 1

\* C12 amended: at most one active job has its cancel flag clear, and it is
\* the job that _play_thread refers to; every other active job was left
\* running by a wait that timed out and has its cancel flag set.
C12_AtMostOneUncancelled ==
    /\ Cardinality({n \in Active : ~jobs[n].stop}) <= 1
    /\ \A n \in Active : (~jobs[n].stop) => (n = ui.play_thread)
    /\ \A n \in Active : (n # ui.play_thread) => (jobs[n].stop /\ Abandoned(n))

C12_Witness ==
    /\ Cardinality(Active) = 2
    /\ jobs[1].stop /\ jobs[1].pc = "send" /\ jobs[1].j = 2
    /\ ~jobs[2].stop /\ jobs[2].pc = "send"

\* a play request is past lines 301-306 and its job is not started yet
Pending == ui.pc \in {"stop_prev", "wait", "create"}

\* C13: a play request that passed lines 301-306 ends in a new job being
\* started and in nothing else, whether the wait returned or timed out, and
\* it does end; a job left running by a wait that timed out is not killed:
\* like every job it runs on to the return of run(), with its shutdown loop
\* when it was Running and with exactly one completion notification.
C13_AcceptedStarts ==
    /\ [][(Pending /\ ~Pending') =>
             /\ Cardinality(Created') = Cardinality(Created) + 1
             /\ ui'.play_thread \in Created' \ Created
             /\ jobs'[ui'.play_thread].pc = "start"]_vars
    /\ [][\A n \in JobIds :
             (IsRunning(n) /\ jobs'[n].pc = "done") =>
                /\ jobs[n].pc \in {"emit_empty", "emit_done", "h_emit"}
                /\ jobs'[n].notes = 1
                /\ jobs[n].running => jobs[n].shutdowns = 1]_vars
    /\ <>[](~Pending /\ Active = {})

C13_Witness ==
    /\ ui.pc = "idle" /\ ui.play_thread = 2
    /\ jobs[2].pc = "start"
    /\ Abandoned(1) /\ jobs[1].pc = "off"

\* C14: the targets of a job, resolved when the job is made, are the event's
\* active actuators in order when there are any, and otherwise device_targets
\* as it was at the request.
C14_TargetsFromMappingOrDefault ==
    [][\A n \in JobIds :
         (jobs[n].pc = "none" /\ jobs'[n].pc = "start") =>
            jobs'[n].actuators =
               IF Len(ui.req_mapping) > 0 THEN ui.req_mapping ELSE ui.req_targets]_vars

\* C16: every enabled command that a job or the test pulse hands to
\* send_command carries a frequency code in 0..7; a job is made with the code
\* that is selected at that moment and keeps it while it runs, whatever is
\* selected later.
C16_FreqCodeRange ==
    /\ [](/\ \A n \in JobIds :
               (JobSends(n) /\ JobCmd(n).en = 1) => (JobCmd(n).freq \in 0..7)
          /\ \A aid \in TestIds :
               (TestSends /\ TestCmd(aid).en = 1) => (TestCmd(aid).freq \in 0..7))
    /\ [][\A n \in JobIds :
            /\ (jobs[n].pc = "none" /\ jobs'[n].pc = "start") =>
                  (jobs'[n].freq_code = ui.device_freq_code)
            /\ (IsRunning(n) /\ jobs'[n].pc # "done") =>
                  (jobs'[n].freq_code = jobs[n].freq_code)]_vars

C16_Witness ==
    /\ jobs[1].pc = "send" /\ jobs[1].i = 2
    /\ JobCmd(1).freq = 4 /\ ui.device_freq_code = 7
    /\ ui.pc = "test_sleep"

\* ------------------------------------------------- _extract_y step by step
\* XSpec calls _extract_y (lines 54-85) on one event and follows it strategy
\* by strategy.
XSamples == [gm |-> <<40>>, arr |-> <<0, 40>>, pts |-> <<0, 40, -1>>]
\* the times of the three points in ms: a uniform grid and one that is not
XGrids == {<<0, 1, 2>>, <<0, 1, 3>>}

XAccessors(y) == {Accessor("raises", << >>), Accessor("ok", << >>), Accessor("ok", y)}

XRates == {Rate("missing", 0), Rate("bad", 0), Rate("ok", 0), Rate("ok", 1000)}
XDurations == {Rate("missing", 0), Rate("bad", 0), Rate("ok", 3)}

\* an event with a points list
MkPointsEvent(gm, arr, pts, t, kind, dur, sr) ==
    [MkEvent(TRUE, gm, arr, pts, sr) EXCEPT !.times = t, !.points = kind, !.duration = dur]

XEvents ==
    {MkEvent(FALSE, Accessor("absent", << >>), NoAccessor, << >>, Rate("missing", 0))}
    \* no points
    \cup {MkEvent(TRUE, gm, arr, << >>, sr) :
            gm \in XAccessors(XSamples.gm) \cup {Accessor("absent", << >>)},
            arr \in XAccessors(XSamples.arr), sr \in XRates}
    \* three points
    \cup {MkPointsEvent(gm, arr, XSamples.pts, t, kind, dur, sr) :
            gm \in XAccessors(XSamples.gm) \cup {Accessor("absent", << >>)},
            arr \in XAccessors(XSamples.arr), t \in XGrids,
            kind \in {"ok", "malformed"}, dur \in XDurations, sr \in XRates}

XInit ==
    /\ JobIdle
    /\ quant = QuantIdle
    /\ AppIdle
    /\ \E e \in XEvents : ext = [ExtIdle EXCEPT !.pc = "wd", !.event = e]

\* return y, sr
XReturn(y, sr) == ext' = [ext EXCEPT !.pc = "returned", !.y = y, !.sr = sr]

\* lines 55-57
XCheckData ==
    /\ ext.pc = "wd"
    /\ IF ~ext.event.waveform_data
       THEN XReturn(<< >>, 0)
       ELSE ext' = [ext EXCEPT !.pc = "modified"]
    /\ UNCHANGED <<jobvars, quant, appvars>>

\* lines 59-65
XModified ==
    /\ ext.pc = "modified"
    /\ LET ev == ext.event IN
         IF ev.gm.kind = "absent" THEN ext' = [ext EXCEPT !.pc = "array"]
         ELSE IF ev.gm.kind = "raises" THEN ext' = [ext EXCEPT !.pc = "array"]
         ELSE IF SampleRateRaises(ev) THEN ext' = [ext EXCEPT !.pc = "array"]
         ELSE IF Len(ev.gm.y) > 0 THEN XReturn(ev.gm.y, SampleRateOf(ev))
         ELSE ext' = [ext EXCEPT !.pc = "array"]
    /\ UNCHANGED <<jobvars, quant, appvars>>

\* lines 67-71
XArray ==
    /\ ext.pc = "array"
    /\ LET ev == ext.event IN
         IF ev.arr.kind = "raises" THEN ext' = [ext EXCEPT !.pc = "points"]
         ELSE IF SampleRateRaises(ev) THEN ext' = [ext EXCEPT !.pc = "points"]
         ELSE IF Len(ev.arr.y) > 0 THEN XReturn(ev.arr.y, SampleRateOf(ev))
         ELSE ext' = [ext EXCEPT !.pc = "points"]
    /\ UNCHANGED <<jobvars, quant, appvars>>

\* lines 73-84
XPoints ==
    /\ ext.pc = "points"
    /\ LET ev == ext.event IN
         IF Len(ev.amplitude) = 0 THEN ext' = [ext EXCEPT !.pc = "fallback"]
         ELSE IF ev.points = "malformed" THEN ext' = [ext EXCEPT !.pc = "fallback"]
         ELSE IF SampleRateRaises(ev) THEN ext' = [ext EXCEPT !.pc = "fallback"]
         ELSE IF ~NonUniform(ev.times) THEN XReturn(ev.amplitude, SampleRateOf(ev))
         ELSE IF DurationRaises(ev) THEN ext' = [ext EXCEPT !.pc = "fallback"]
         ELSE XReturn(Resample(ev.times, ev.amplitude, DurationOf(ev), SampleRateOf(ev)),
                      SampleRateOf(ev))
    /\ UNCHANGED <<jobvars, quant, appvars>>

\* line 85, outside every try
XFallback ==
    /\ ext.pc = "fallback"
    /\ IF SampleRateRaises(ext.event)
       THEN ext' = [ext EXCEPT !.pc = "raised"]
       ELSE XReturn(<< >>, SampleRateOf(ext.event))
    /\ UNCHANGED <<jobvars, quant, appvars>>

XNext ==
    \/ XCheckData
    \/ XModified
    \/ XArray
    \/ XPoints
    \/ XFallback

XSpec == XInit /\ [][XNext]_vars

\* the one-call form of _extract_y gives what the strategy-by-strategy form gives
XAgrees ==
    LET r == ExtractY(ext.event) IN
    /\ (ext.pc = "returned") => (r.kind = "ok" /\ r.y = ext.y /\ r.sr = ext.sr)
    /\ (ext.pc = "raised") => (r.kind = "raise")

\* what one strategy yields on its own: its array, or nothing when the
\* strategy is absent or raises.  1 is the modified waveform (59-65), 2 the
\* amplitude array (67-71), 3 the points (73-84).
StrategyYield(ev, s) ==
    IF s = 1 THEN (IF ev.gm.kind = "ok" /\ ~SampleRateRaises(ev) THEN ev.gm.y ELSE << >>)
    ELSE IF s = 2 THEN (IF ev.arr.kind = "ok" /\ ~SampleRateRaises(ev) THEN ev.arr.y ELSE << >>)
    ELSE (IF Len(ev.amplitude) > 0 /\ ~PointsRaise(ev) THEN PointsSignal(ev) ELSE << >>)

Yielding(ev) == {s \in 1..3 : Len(StrategyYield(ev, s)) > 0}

\* C21: on an event with waveform data _extract_y returns the array of the
\* first of the three strategies, in the order modified waveform, amplitude
\* array, points, that yields a non-empty array, whatever the strategies after
\* it would yield; it returns the empty array only when none of them yields
\* one.  ExtractY returns the same.
C21_FirstNonEmptyStrategy ==
    (ext.pc = "returned" /\ ext.event.waveform_data) =>
        LET ev == ext.event IN
        /\ \A s \in Yielding(ev) :
              (\A p \in Yielding(ev) : s <= p) => ext.y = StrategyYield(ev, s)
        /\ (Yielding(ev) = {}) => ext.y = << >>
        /\ ExtractY(ev).y = ext.y

C21_Witness ==
    /\ ext.pc = "returned"
    /\ ext.event.gm = Accessor("ok", << >>)
    /\ ext.event.arr.kind = "raises"
    /\ NonUniform(ext.event.times)
    /\ ext.y = <<0, 29, -1>>

\* C22: _extract_y never raises.
C22_NeverRaises == ext.pc # "raised"

\* run() of job n has returned
Terminal(n) == jobs[n].pc = "done"

\* C23: every job that was started gets to the return of run(), and gets
\* there by exactly one of the three notifications: "Waveform done" of line
\* 123 (the loop ended or was cancelled), "Empty waveform" of line 102 or the
\* error text of line 128.  From then on the job takes no step, hands no
\* command to the channel and is not started again; a job that starts is one
\* that did not exist before the play request that made it.
C23_EveryJobTerminates ==
    /\ <>[](\A n \in JobIds : jobs[n].pc # "none" => Terminal(n))
    /\ [][\A n \in JobIds :
            /\ (~Terminal(n) /\ Terminal(n)') =>
                  /\ jobs[n].pc \in {"emit_done", "emit_empty", "h_emit"}
                  /\ jobs[n].notes = 0 /\ jobs'[n].notes = 1
            /\ Terminal(n) => (jobs'[n] = jobs[n])
            /\ (jobs[n].pc # "start" /\ jobs'[n].pc = "start") =>
                  (jobs[n].pc = "none" /\ ui.pc = "create")]_vars
    /\ [](\A n \in JobIds : Terminal(n) => ~JobSends(n))

C23_Witness ==
    /\ Terminal(1) /\ jobs[1].notes = 1
    /\ jobs[2].pc = "h_emit" /\ jobs[2].shutdowns = 1 /\ ~jobs[2].running

\* ------------------------------------------- editing while a job is running
\* lines 1196-1208: the CSV import assigns a new WaveformData to the event
\* object that is being edited, here the object that the job made last holds
\* in self.event.  run() reads self.event at line 100 and never again, so
\* only an import before that line is followed.
import_waveform ==
    /\ ui.pc = "idle"
    /\ IsRunning(ui.play_thread)
    /\ jobs[ui.play_thread].pc = "start"
    /\ jobs[ui.play_thread].event # ImportedEvent
    /\ jobs' = [jobs EXCEPT ![ui.play_thread].event = ImportedEvent]
    /\ UNCHANGED <<jobvars, quant, ext, ui>>

EditNext ==
    \/ PlaybackNext
    \/ import_waveform

\* the application with the editor in use
EditSpec == AppInit /\ [][EditNext]_vars

\* C24: whether a job streams, and the duty sequence that it streams, is
\* settled in one step before the job's first command, from the event as it
\* was at the play request, whatever is done to the event afterwards; the
\* sequence stays as computed.
C24_PlaysSnapshot ==
    [][\A n \in JobIds :
         /\ (jobs[n].pc = "start" /\ jobs'[n].pc # "start") =>
               LET q == Quantized[jobs[n].requested] IN
               /\ (jobs'[n].pc = "loop") <=> (~q.raises /\ ~q.empty)
               /\ (jobs'[n].pc = "loop") =>
                     \E c \in NanCasts : jobs'[n].duty_seq = q.duty[c]
         /\ (jobs[n].running /\ jobs'[n].running) =>
               jobs'[n].duty_seq = jobs[n].duty_seq]_vars

\* C25: nothing keeps the test pulse and a job apart.  Wherever a job is
\* about to hand a command to the channel, a test requested on the idle and
\* connected UI thread hands its on command to the channel first, a test
\* that is in its sleep hands its off command first, and the job is not held
\* back by either.
C25_TestPulseInterleaves ==
    \A n \in JobIds :
       JobSends(n) =>
          /\ (ui.pc = "idle" /\ ui.connected) =>
                ENABLED (on_device_test /\ ui'.pc = "test_sleep")
          /\ (ui.pc = "test_sleep") => ENABLED TestOff
          /\ ENABLED JobStep(n)

\* the on command of the test went out after the first command of a tick and
\* before the second, which is for an actuator that the test can name
C25_Witness ==
    /\ ui.pc = "test_sleep"
    /\ jobs[1].pc = "send" /\ jobs[1].i = 1 /\ jobs[1].j = 2
    /\ JobCmd(1).addr \in TestIds
    /\ TestCmd(JobCmd(1).addr) = Cmd(JobCmd(1).addr, 0, 0, 0)

\* ------------------------------------------------------ closing the window
\* closeEvent that does not call stop()
closeEvent_noStop ==
    /\ ui.pc = "idle"
    /\ IF IsRunning(ui.play_thread)
       THEN ui' = [ui EXCEPT !.pc = "close_wait"]
       ELSE ui' = [ui EXCEPT !.pc = "closed"]
    /\ UNCHANGED <<jobvars, quant, ext, jobs>>

\* lines 1326-1329: isRunning() and stop() of the job in _play_thread
closeEvent ==
    /\ ui.pc = "idle"
    /\ IF IsRunning(ui.play_thread)
       THEN /\ RequestStop(ui.play_thread)
            /\ ui' = [ui EXCEPT !.pc = "close_wait"]
       ELSE /\ ui' = [ui EXCEPT !.pc = "closed"]
            /\ UNCHANGED jobs
    /\ UNCHANGED <<jobvars, quant, ext>>

\* line 1330: wait(1200) returns because run() returned; line 1333
CloseWaitReturns ==
    /\ ui.pc = "close_wait"
    /\ ~IsRunning(ui.play_thread)
    /\ ui' = [ui EXCEPT !.pc = "closed"]
    /\ UNCHANGED <<jobvars, quant, ext, jobs>>

\* line 1330: wait(1200) returns after 1200 ms while run() has not returned;
\* line 1333
CloseWaitTimesOut ==
    /\ ui.pc = "close_wait"
    /\ IsRunning(ui.play_thread)
    /\ ui' = [ui EXCEPT !.pc = "closed", !.timedOut = TRUE]
    /\ UNCHANGED <<jobvars, quant, ext, jobs>>

CloseStep ==
    \/ CloseWaitReturns
    \/ CloseWaitTimesOut

CloseNext ==
    \/ PlaybackNext
    \/ closeEvent
    \/ CloseStep

\* the application until its window is closed, and the jobs after that
CloseSpec == AppInit /\ [][CloseNext]_vars

FairCloseSpec ==
    /\ CloseSpec
    /\ WF_vars(UiStep)
    /\ WF_vars(CloseStep)
    /\ \A n \in JobIds : WF_vars(JobStep(n))

Closing == ui.pc \in {"close_wait", "closed"}

\* C26: from the moment closeEvent waits, and after the window is closed,
\* every job that is still running has its cancel flag set;
\* the wait ends and the window closes, whether that job has returned or
\* not; no job is made or started from closeEvent on.
C26_CloseCancelsAndProceeds ==
    /\ [](Closing => \A n \in Active : jobs[n].stop)
    /\ (ui.pc = "close_wait") ~> (ui.pc = "closed")
    /\ [][Closing => (Closing' /\ Created' = Created)]_vars
    /\ [][(ui.pc = "idle" /\ Closing') => Created' = Created]_vars

\* the window is closed after a wait that timed out, the job is in mid-tick
C26_Witness ==
    /\ ui.pc = "closed" /\ ui.timedOut
    /\ IsRunning(ui.play_thread)
    /\ jobs[ui.play_thread].pc = "send" /\ jobs[ui.play_thread].stop

\* C27: a play request is turned down exactly when it comes without waveform
\* data or without a connection.  From the request to the return of
\* play_waveform_on_device no job is made, no cancel flag is set and the UI
\* thread reaches no call of send_command, and every running job can take
\* its next step.
C27_RejectedPlayNoEffect ==
    /\ [][(ui.pc = "idle" /\ ui'.pc = "stop_prev") =>
             (ui.connected /\ ui'.req.waveform_data)]_vars
    /\ [][(ui'.pc = "play_rejected") =>
             /\ ui.pc \in {"idle", "play_rejected"}
             /\ Created' = Created
             /\ \A n \in JobIds : jobs'[n].stop => jobs[n].stop]_vars
    /\ [][(ui.pc = "play_rejected") => (ui'.pc \in {"play_rejected", "idle"})]_vars
    /\ [](ui.pc = "play_rejected" =>
             (~TestSends /\ \A n \in JobIds : IsRunning(n) => ENABLED JobStep(n)))

\* the message box is open while a job is in its second tick, not cancelled
C27_Witness ==
    /\ ui.pc = "play_rejected"
    /\ jobs[1].pc = "sleep" /\ jobs[1].i = 2 /\ ~jobs[1].stop

\* the job that was started last
Latest == Cardinality(Created)

\* C28: every running job other than the one started last has its cancel
\* flag set; a flag that is set stays set until run() returns; a job whose
\* flag is set begins no tick: it sends only what is left of the tick it is
\* in, and from the loop test it goes to its off loop.
C28_OlderJobsCancelled ==
    /\ [](\A n \in Active : n # Latest => jobs[n].stop)
    /\ [][\A n \in JobIds :
            /\ (jobs[n].stop /\ ~Terminal(n)') => jobs'[n].stop
            /\ (jobs[n].stop /\ jobs[n].pc = "loop") => (jobs'[n].pc \in {"loop", "off"})
            /\ (jobs[n].stop /\ jobs'[n].pc = "send") =>
                  (jobs[n].pc = "send" /\ jobs'[n].i = jobs[n].i)]_vars

\* job 1 left its loop at the test for tick 2 while job 2 streams
C28_Witness ==
    /\ Latest = 2 /\ ~jobs[2].stop /\ jobs[2].pc = "sleep"
    /\ jobs[1].stop /\ jobs[1].pc = "off" /\ jobs[1].i = 2 /\ Len(jobs[1].duty_seq) = 2

\* the last command on the channel that is addressed to actuator a
LastFor(a) ==
    LET ks == {k \in DOMAIN sent : sent[k].addr = a}
    IN  sent[CHOOSE k \in ks : \A l \in ks : l <= k]

\* C29: on the channel of one job every command after an off command is an
\* off command; and when the job has returned after being Running and no
\* send_command call raised, the last command addressed to each of its
\* actuators is (actuator, 0, 0, 0).
C29_OffCommandsLast ==
    /\ \A k \in DOMAIN sent :
          (sent[k].en = 0) => \A l \in k..Len(sent) : sent[l] = Cmd(sent[l].addr, 0, 0, 0)
    /\ (Done /\ WasRunning /\ obs.logFailed = 0 /\ obs.offFailed = 0) =>
          \A m \in DOMAIN actuators :
             /\ \E k \in DOMAIN sent : sent[k].addr = actuators[m]
             /\ LastFor(actuators[m]) = Cmd(actuators[m], 0, 0, 0)

\* a job of two actuators that was cancelled after some enabled commands
C29_Witness ==
    /\ Done /\ WasRunning /\ obs.exit = "stop" /\ exc = ""
    /\ obs.logFailed = 0 /\ obs.offFailed = 0
    /\ Len(actuators) = 2 /\ Len(OnCmds) = 2 /\ Len(sent) = 4

\* C30: from start() to the return of run() the actuators of a job, their
\* order and its frequency code stay what they were made with, whatever is
\* selected in the Device menu meanwhile, and every command of the job is
\* addressed to the actuator whose turn it is and, when enabled, carries that
\* code; the list of a job is never empty: __init__ replaces an empty list
\* by <<0>>.
C30_JobParametersFixed ==
    /\ [][\A n \in JobIds :
            (IsRunning(n) /\ IsRunning(n)') =>
               /\ jobs'[n].actuators = jobs[n].actuators
               /\ jobs'[n].freq_code = jobs[n].freq_code]_vars
    /\ [](\A n \in JobIds :
            /\ IsRunning(n) => Len(jobs[n].actuators) >= 1
            /\ JobSends(n) =>
                  /\ JobCmd(n).addr = jobs[n].actuators[jobs[n].j]
                  /\ (JobCmd(n).en = 1) => (JobCmd(n).freq = jobs[n].freq_code))
    /\ [](\A acts \in TargetLists :
            /\ Len(InitActuators(acts)) >= 1
            /\ (Len(acts) = 0) => (InitActuators(acts) = <<0>>)
            /\ (Len(acts) > 0) => (InitActuators(acts) = acts))

\* both settings were changed while job 1 is in its second tick
C30_Witness ==
    /\ ui.device_targets = <<1, 2>> /\ ui.device_freq_code = 7
    /\ jobs[1].pc = "send" /\ jobs[1].i = 2 /\ jobs[1].j = 2
    /\ jobs[1].actuators = <<2, 1>> /\ jobs[1].freq_code = 4

====
